---- MODULE Spec2Model ----
(***************************************************************************)
(* Legacy-JavaScript detection (CodePatternMatcher, LegacyJavascript) of   *)
(* core/audits/insights/third-parties-insight.js.                          *)
(*                                                                         *)
(* Text is modelled as a sequence of tokens.  A token is a tuple of        *)
(* strings and stands for one index position of the JavaScript string:     *)
(* either a single character (line terminators, blank, ';', '=', any other *)
(* character) or a literal piece of a signature that the regular           *)
(* expressions only ever match as a whole.  All indices (lastIndex,        *)
(* result.index, column) are 0-based as in the source; the character at    *)
(* index i of code is code[i + 1].                                         *)
(*                                                                         *)
(* A name (of a catalog entry, pattern, match or module) is the sequence   *)
(* of its '.'-separated parts; a leading '@' is kept as a part of its own. *)
(* A path is the sequence of its '/'-separated segments, each segment the  *)
(* sequence of its '.'-separated parts.                                    *)
(***************************************************************************)
EXTENDS Integers, Sequences, FiniteSets, TLC

VARIABLES
  polyfillData,          \* the polyfill catalog (polyfill-module-data.json)
  graph,                 \* the dependency graph (polyfill-graph-data.json)
  pool,                  \* contents the harness may hand to matcher.match
  patterns,              \* matcher.patterns
  lastIndex,             \* matcher.re.lastIndex
  mpc,                   \* position of match(): "idle", "loop", "returned"
  code,                  \* match(): its argument
  seen,                  \* match(): indices into patterns already reported
  matches,               \* match(): the result list
  line,                  \* match(): line counter
  lineBeginsAtIndex,     \* match(): index at which the current line begins
  events,                \* history: the pattern match events of the running call
  remembered,            \* history: the argument and result of an earlier call
  suspended,             \* another call of match on the same matcher: its locals
  Scripts,               \* artifacts.Scripts
  bundles,               \* the JSBundles of the artifacts
  classifiedEntities,    \* EntityClassification: the first-party URLs
  compressionRatio,      \* estimateCompressionRatioForContent, by URL
  pc,                    \* position of audit_: "detect", "report", "done"
  scriptToMatchResults,  \* result of detectAcrossScripts, in insertion order
  items,                 \* audit_: items
  warnings,              \* audit_: warnings
  wastedBytesByUrl,      \* audit_: wastedBytesByUrl
  stage,                 \* audit_ run loop by loop: index, match list, history
  estimate               \* estimateWastedBytes called on its own: its call

matcherVars == <<pool, lastIndex, mpc, code, seen, matches, line,
                 lineBeginsAtIndex, events, remembered, suspended>>

artifactVars == <<Scripts, bundles, classifiedEntities, compressionRatio>>

auditVars == <<pc, scriptToMatchResults, items, warnings, wastedBytesByUrl,
               stage>>

vars == <<polyfillData, graph, patterns, matcherVars, artifactVars, auditVars,
          estimate>>

----------------------------------------------------------------------------
(* Bounds of the model. *)

\* Longest content handed to the matcher harness.
MaxLen == 4

\* Longest content when the harness calls match with changing contents.
MaxReuseLen == 2

----------------------------------------------------------------------------
(* Sequences helpers. *)

Range(s) == {s[i] : i \in 1..Len(s)}

RECURSIVE SeqsUpTo(_, _)
SeqsUpTo(S, n) ==
  IF n = 0 THEN {<<>>}
  ELSE LET shorter == SeqsUpTo(S, n - 1)
       IN shorter \cup {Append(s, c) : s \in {t \in shorter : Len(t) = n - 1}, c \in S}

\* Array.prototype.findIndex, given the outcome of the test for each
\* element: 0-based index of the first element that passes, -1 when there
\* is none.
FindIndex(tests) ==
  IF \E i \in 1..Len(tests) : tests[i]
  THEN (CHOOSE i \in 1..Len(tests) : tests[i] /\ \A j \in 1..(i - 1) : ~tests[j]) - 1
  ELSE -1

Min(a, b) == IF a < b THEN a ELSE b

----------------------------------------------------------------------------
(* Characters. *)

CR == <<"CR">>            \* \r
LF == <<"LF">>            \* \n
SP == <<"SP">>            \* a blank (matched by \s, no line terminator)
SEMI == <<";">>
EQ == <<"=">>
X == <<"x">>              \* any other single character
WINDOW == <<"window.">>

\* Character classes of the regular expressions.
InClass(c, cls) ==
  CASE cls.k = "lit" -> c = cls.tok
    [] cls.k = "ws" -> c \in {CR, LF, SP}                \* \s
    [] cls.k = "wssemi" -> c \in {CR, LF, SP, SEMI}      \* [\s;]
    [] cls.k = "noteq" -> c # EQ                         \* [^=]
    [] cls.k = "dot" -> c \notin {CR, LF}                \* .
    [] cls.k = "nonws" -> c \notin {CR, LF, SP}          \* \S

Cls(k) == [k |-> k, tok |-> <<>>]
One(tok) == [q |-> "one", cls |-> [k |-> "lit", tok |-> tok]]
OneOf(k) == [q |-> "one", cls |-> Cls(k)]
Opt(k) == [q |-> "opt", cls |-> Cls(k)]
Star(k) == [q |-> "star", cls |-> Cls(k)]
Plus(k) == [q |-> "plus", cls |-> Cls(k)]
Bos == [q |-> "bos", cls |-> Cls("none")]    \* ^ (the expression has no m flag)

\* r unless it is -1 (no match), else the alternative.
OrElse(r, alternative) == IF r # -1 THEN r ELSE alternative

\* Backtracking match of the element sequence elems (from its k-th element)
\* against str at index i: the index just past the match, -1 when there is
\* none.  Quantifiers are greedy; "bos" is the assertion ^.
RECURSIVE MatchSeq(_, _, _, _)
MatchSeq(elems, k, str, i) ==
  IF k > Len(elems) THEN i
  ELSE IF elems[k].q = "bos"
  THEN (IF i = 0 THEN MatchSeq(elems, k + 1, str, i) ELSE -1)
  ELSE IF i < Len(str) /\ InClass(str[i + 1], elems[k].cls)
  THEN CASE elems[k].q = "one" -> MatchSeq(elems, k + 1, str, i + 1)
         [] elems[k].q = "opt" ->
              OrElse(MatchSeq(elems, k + 1, str, i + 1),
                     MatchSeq(elems, k + 1, str, i))
         [] elems[k].q = "star" ->
              OrElse(MatchSeq(elems, k, str, i + 1),
                     MatchSeq(elems, k + 1, str, i))
         [] elems[k].q = "plus" ->
              OrElse(MatchSeq(elems, k, str, i + 1),
                     MatchSeq(elems, k + 1, str, i + 1))
  ELSE IF elems[k].q \in {"opt", "star"} THEN MatchSeq(elems, k + 1, str, i)
  ELSE -1

\* An expression is a sequence of alternatives (a|b|c), each a sequence of
\* elements; the first alternative (from the a-th on) that matches at i wins.
RECURSIVE MatchAlternatives(_, _, _, _)
MatchAlternatives(expr, a, str, i) ==
  IF a > Len(expr) THEN -1
  ELSE OrElse(MatchSeq(expr[a], 1, str, i), MatchAlternatives(expr, a + 1, str, i))

MatchExpr(expr, str, i) == MatchAlternatives(expr, 1, str, i)

----------------------------------------------------------------------------
(* Pattern catalog. *)

\* The entries the catalog is drawn from, as create-polyfill-module-data.js
\* writes them: a hand-written entry without the corejs flag, then one entry
\* per core-js module, named after the class and property that the module
\* name (without its es./esnext. prefix) spells.  Two modules that differ in
\* the prefix only get the same name.
CatalogEntries ==
  << [name |-> <<"focus-visible">>, modules |-> << <<"focus-visible">> >>,
      corejs |-> FALSE],
     [name |-> <<"String", "prototype", "repeat">>,
      modules |-> << <<"es", "string", "repeat">> >>, corejs |-> TRUE],
     [name |-> <<"Array", "prototype", "findLast">>,
      modules |-> << <<"es", "array", "find-last">> >>, corejs |-> TRUE],
     [name |-> <<"Array", "prototype", "findLast">>,
      modules |-> << <<"esnext", "array", "find-last">> >>, corejs |-> TRUE] >>

\* Text pieces of the signatures.
Member(object, property) == <<"member">> \o object \o <<property>>
Index(object, property) == <<"index">> \o object \o <<property>>
Ident(property) == <<"ident", property>>
DefinePropertyOf(object) == <<"defineProperty(">> \o object \o <<",">>
Quoted(token) == <<"quoted", token>>
CallWith(object) == <<"(">> \o object \o <<",">>
Brace(property) == <<"{", property>>
COLON == <<":">>
CLOSE == <<"},">>
Target(object) == <<"{target:">> \o object
ModulePath(module) == <<"core-js/modules/">> \o module \o <<"\"">>

\* object.replace('.prototype', ''): without the first '.prototype'.
WithoutPrototype(object) ==
  LET at == {i \in 2..Len(object) : object[i] = "prototype"}
  IN IF at = {} THEN object
     ELSE LET i == CHOOSE j \in at : \A l \in at : j <= l
          IN SubSeq(object, 1, i - 1) \o SubSeq(object, i + 1, Len(object))

\* An expression for a global that any text may precede.
AnyPrefix == << <<>> >>

\* A prefix group of 'window.' and whitespace, without the ';'.
BlankPrefix == << <<One(WINDOW)>>, <<Plus("ws")>> >>

\* (?:window\.|[\s;]+), the text that precedes the property of a global.
GlobalPrefix == << <<One(WINDOW)>>, <<Plus("wssemi")>> >>

\* buildPolyfillExpression: the alternatives, in the order of the source.
\* object is <<>> when the source's object is null.  The group
\* (?:window\.|[\s;]+) is written out as two alternatives in its order.
buildPolyfillExpression(object, property, coreJs3Module) ==
  LET assign == <<Opt("ws"), One(EQ), OneOf("noteq")>>
      direct == IF object # <<>>
                THEN << <<One(Member(object, property))>> \o assign >>
                ELSE [i \in 1..Len(GlobalPrefix) |->
                        GlobalPrefix[i] \o <<One(Ident(property))>> \o assign]
      bracket == IF object # <<>>
                 THEN << <<One(Index(object, property))>> \o assign >>
                 ELSE <<>>
      define == << <<One(DefinePropertyOf(IF object # <<>> THEN object
                                          ELSE <<"window">>)),
                     Opt("ws"), One(Quoted(property))>> >>
      shims == IF object # <<>>
               THEN << <<One(CallWith(object)), Star("ws"), One(Brace(property)),
                         One(COLON), Star("dot"), One(CLOSE), Star("ws"),
                         One(Brace(property))>> >>
               ELSE <<>>
      corejs3 == IF object # <<>>
                 THEN << <<One(Target(WithoutPrototype(object))), Star("nonws"),
                           One(CLOSE), One(Brace(property)), One(COLON)>> >>
                 ELSE <<>>
      modulePath == << <<One(ModulePath(coreJs3Module))>> >>
  IN direct \o bracket \o define \o shims \o corejs3 \o modulePath

\* The catalog without the filter on the corejs flag: every entry, with its
\* first module.
getEveryPolyfillData(data) ==
  [i \in 1..Len(data) |->
     [name |-> data[i].name, coreJs3Module |-> data[i].modules[1]]]

\* getCoreJsPolyfillData: the corejs entries, with their first module.
getCoreJsPolyfillData(data) ==
  LET corejs == SelectSeq(data, LAMBDA d : d.corejs)
  IN [i \in 1..Len(corejs) |->
        [name |-> corejs[i].name, coreJs3Module |-> corejs[i].modules[1]]]

\* getPolyfillPatterns: name.split('.'), the last part is the property.
getPolyfillPatterns(data) ==
  LET core == getCoreJsPolyfillData(data)
  IN [i \in 1..Len(core) |->
        LET parts == core[i].name
            object == IF Len(parts) > 1 THEN SubSeq(parts, 1, Len(parts) - 1)
                      ELSE <<>>
            property == parts[Len(parts)]
        IN [name |-> core[i].name,
            expression |-> buildPolyfillExpression(object, property,
                                                   core[i].coreJs3Module),
            estimateBytes |-> "none"]]

\* Literal strings of the transform helpers.
CANNOT_CALL == <<"Cannot call a class as a function">>
GENERATOR_RUNNING == <<"Generator is already running">>
REGENERATOR == <<"regeneratorRuntime">>
INVALID_SPREAD == <<"Invalid attempt to spread non-iterable instance">>

TransformClasses == <<"@", "babel/plugin-transform-classes">>
TransformRegenerator == <<"@", "babel/plugin-transform-regenerator">>
TransformSpread == <<"@", "babel/plugin-transform-spread">>

\* getTransformPatterns; estimateBytes names the heuristic (see EstimateBytes).
getTransformPatterns ==
  << [name |-> TransformClasses, expression |-> << <<One(CANNOT_CALL)>> >>,
      estimateBytes |-> "classes"],
     [name |-> TransformRegenerator,
      expression |-> << <<One(GENERATOR_RUNNING)>>, <<One(REGENERATOR)>> >>,
      estimateBytes |-> "regenerator"],
     [name |-> TransformSpread, expression |-> << <<One(INVALID_SPREAD)>> >>,
      estimateBytes |-> "spread"] >>

----------------------------------------------------------------------------
(* CodePatternMatcher. *)

\* A first capture group with an alternative that matches the empty string:
\* (^\r\n|\r|\n|\s?).
NullableNewline ==
  << <<Bos, One(CR), One(LF)>>, <<One(CR)>>, <<One(LF)>>, <<Opt("ws")>> >>

\* The first capture group of the matcher: (^\r\n|\r|\n).
NewlineExpression == << <<Bos, One(CR), One(LF)>>, <<One(CR)>>, <<One(LF)>> >>

\* The groups of an expression in which the first pattern brings a capture
\* group of its own.
ReWithInnerGroup(pats) ==
  <<NewlineExpression, pats[1].expression>>
    \o [i \in 1..Len(pats) |-> pats[i].expression]

\* constructor: the groups of this.re, the newline group first, then one
\* group per pattern, in the order of the patterns.
Re(pats) == <<NewlineExpression>> \o [i \in 1..Len(pats) |-> pats[i].expression]

\* exec found nothing: null, and lastIndex is set to 0.
NullResult ==
  [isNull |-> TRUE, index |-> 0, captureGroups |-> <<>>, lastIndex |-> 0]

\* exec matched group g at index s up to end.  captureGroups[j] is the
\* truthiness of the text captured by group j of this.re.
FoundResult(re, s, g, end) ==
  [isNull |-> FALSE, index |-> s,
   captureGroups |-> [j \in 1..Len(re) |-> j = g /\ end > s],
   lastIndex |-> end]

\* The first group of re, from the g-th on, that matches at index s.
RECURSIVE GroupAt(_, _, _, _)
GroupAtOr(re, g, str, s, end) ==
  IF end # -1 THEN FoundResult(re, s, g, end) ELSE GroupAt(re, g + 1, str, s)

GroupAt(re, g, str, s) ==
  IF g > Len(re) THEN NullResult
  ELSE GroupAtOr(re, g, str, s, MatchExpr(re[g], str, s))

\* RegExp.prototype.exec with the g flag: the leftmost match at or after
\* lastIndex, of the first group that matches there.  lastIndex becomes the
\* index just past the match, and 0 when there is no match.
RECURSIVE Exec(_, _, _)
ExecOr(re, str, from, result) ==
  IF result.isNull THEN Exec(re, str, from + 1) ELSE result

Exec(re, str, from) ==
  IF from > Len(str) THEN NullResult
  ELSE ExecOr(re, str, from, GroupAt(re, 1, str, from))

\* The state of one call of match: the cursor of this.re and the locals.
\* threw: the call ended in a TypeError (this.patterns[-1].name).
NewFrame ==
  [lastIndex |-> 0, seen |-> {}, matches |-> <<>>, line |-> 0,
   lineBeginsAtIndex |-> 0, done |-> FALSE, threw |-> FALSE]

\* LoopBody without the seen set: every event is pushed.
LoopBodyNoSeen(pats, f, result, found) ==
  IF result.captureGroups[1]
  THEN [f EXCEPT !.lastIndex = result.lastIndex,
                 !.line = f.line + 1,
                 !.lineBeginsAtIndex = result.index + 1]
  ELSE [f EXCEPT !.lastIndex = result.lastIndex,
                 !.seen = f.seen \cup {found + 1},
                 !.matches = Append(f.matches,
                    [name |-> pats[found + 1].name,
                     line |-> f.line,
                     column |-> result.index - f.lineBeginsAtIndex])]

\* The body of the loop of match for the result of exec; found is
\* patternExpressionMatches.findIndex(Boolean).
LoopBody(pats, f, result, found) ==
  IF result.captureGroups[1]
  THEN [f EXCEPT !.lastIndex = result.lastIndex,
                 !.line = f.line + 1,
                 !.lineBeginsAtIndex = result.index + 1]
  ELSE IF found = -1
  THEN [f EXCEPT !.lastIndex = result.lastIndex, !.done = TRUE, !.threw = TRUE]
  ELSE IF (found + 1) \in f.seen
  THEN [f EXCEPT !.lastIndex = result.lastIndex]
  ELSE [f EXCEPT !.lastIndex = result.lastIndex,
                 !.seen = f.seen \cup {found + 1},
                 !.matches = Append(f.matches,
                    [name |-> pats[found + 1].name,
                     line |-> f.line,
                     column |-> result.index - f.lineBeginsAtIndex])]

\* The loop with an exec that leaves lastIndex where it is when it finds
\* nothing.
LoopStepKeepsCursor(pats, f, result) ==
  IF result.isNull THEN [f EXCEPT !.done = TRUE]
  ELSE LoopBody(pats, f, result,
                FindIndex(Tail(result.captureGroups)))

\* One evaluation of the loop condition of match and, when exec found a
\* match, of the loop body.
LoopStep(pats, f, result) ==
  IF result.isNull THEN [f EXCEPT !.lastIndex = result.lastIndex, !.done = TRUE]
  ELSE LoopBody(pats, f, result,
                FindIndex(Tail(result.captureGroups)))

MatchIter(pats, str, f) == LoopStep(pats, f, Exec(Re(pats), str, f.lastIndex))

RECURSIVE MatchLoop(_, _, _)
MatchLoop(pats, str, f) ==
  IF f.done THEN f ELSE MatchLoop(pats, str, MatchIter(pats, str, f))

\* matcher.match(code), run to its end: the returned list.
Match(pats, str) == MatchLoop(pats, str, NewFrame).matches

----------------------------------------------------------------------------
(* The matcher used on its own: match is called with a content of the pool, *)
(* runs one loop iteration per step, and may be called again at any time,   *)
(* also before the running scan has returned (which is then abandoned).     *)

\* Contents of the matcher harness: line feed, blank, '=', another
\* character, two textual forms of String.prototype.repeat (the direct
\* assignment and the module path) and one transform literal.
MatchChars ==
  {LF, SP, EQ, X, Member(<<"String", "prototype">>, "repeat"),
   ModulePath(<<"es", "string", "repeat">>), CANNOT_CALL}

AllPatterns(data) == getPolyfillPatterns(data) \o getTransformPatterns

InitMatcher ==
  /\ patterns = AllPatterns(polyfillData)
  /\ lastIndex = 0

\* The locals of a call of match that has not begun.
NoCall ==
  [mpc |-> "idle", code |-> <<>>, seen |-> {}, matches |-> <<>>, line |-> 0,
   lineBeginsAtIndex |-> 0]

InitFrame ==
  /\ mpc = "idle"
  /\ code = <<>>
  /\ seen = {}
  /\ matches = <<>>
  /\ line = 0
  /\ lineBeginsAtIndex = 0
  /\ events = <<>>
  /\ remembered = [set |-> FALSE, code |-> <<>>, matches |-> <<>>]
  /\ suspended = NoCall

NoGraph == [moduleSizes |-> <<>>, dependencies |-> <<>>, maxSize |-> 0]

NoEstimate == [called |-> FALSE]

\* The loops of audit_ before their first iteration: the index of the loop,
\* the match list of the script at hand, and the history of the stages run.
NoStage == [k |-> 1, found |-> <<>>, log |-> <<>>]

\* No audit is running.
NoAudit ==
  /\ Scripts = <<>>
  /\ bundles = <<>>
  /\ classifiedEntities = [firstParty |-> {}]
  /\ compressionRatio = <<>>
  /\ pc = "off"
  /\ scriptToMatchResults = <<>>
  /\ items = <<>>
  /\ warnings = <<>>
  /\ wastedBytesByUrl = <<>>
  /\ stage = NoStage

\* One content, called any number of times.
InitMatch ==
  /\ polyfillData = CatalogEntries
  /\ graph = NoGraph
  /\ \E c \in SeqsUpTo(MatchChars, MaxLen) : pool = {c}
  /\ InitMatcher
  /\ InitFrame
  /\ NoAudit
  /\ estimate = NoEstimate

\* Contents of the harness when the content changes from call to call.
ReuseChars == {LF, X, ModulePath(<<"es", "string", "repeat">>)}

InitReuse ==
  /\ polyfillData = CatalogEntries
  /\ graph = NoGraph
  /\ pool = SeqsUpTo(ReuseChars, MaxReuseLen)
  /\ InitMatcher
  /\ InitFrame
  /\ NoAudit
  /\ estimate = NoEstimate

\* match without the reset of this.re.lastIndex.
KeepRegExp(old) == old

\* this.re.lastIndex = 0 at the start of match.
ResetRegExp(old) == 0

\* match(code), up to the loop: this.re.lastIndex = 0 and fresh locals.
MatchCall ==
  /\ \E c \in pool : code' = c
  /\ lastIndex' = ResetRegExp(lastIndex)
  /\ seen' = NewFrame.seen
  /\ matches' = NewFrame.matches
  /\ line' = NewFrame.line
  /\ lineBeginsAtIndex' = NewFrame.lineBeginsAtIndex
  /\ mpc' = "loop"
  /\ events' = <<>>
  /\ UNCHANGED <<polyfillData, graph, pool, patterns, remembered, suspended,
                 artifactVars, auditVars, estimate>>

\* The frame of the running call of match.
Frame ==
  [lastIndex |-> lastIndex, seen |-> seen, matches |-> matches, line |-> line,
   lineBeginsAtIndex |-> lineBeginsAtIndex, done |-> FALSE, threw |-> FALSE]

StoreFrame(f) ==
  /\ lastIndex' = f.lastIndex
  /\ seen' = f.seen
  /\ matches' = f.matches
  /\ line' = f.line
  /\ lineBeginsAtIndex' = f.lineBeginsAtIndex
  /\ mpc' = IF f.threw THEN "threw" ELSE IF f.done THEN "returned" ELSE "loop"

\* History: the event of a result of exec that is no line terminator, with
\* the pattern whose group captured and the line state at that moment.
EventsAfter(result) ==
  IF result.isNull \/ result.captureGroups[1] THEN events
  ELSE Append(events,
         [pattern |-> 1 + FindIndex(Tail(result.captureGroups)),
          index |-> result.index, line |-> line,
          lineBeginsAtIndex |-> lineBeginsAtIndex])

\* History: a returned call may be the one remembered.
Remember(f) ==
  IF f.done /\ ~f.threw
  THEN remembered' \in
         {remembered, [set |-> TRUE, code |-> code, matches |-> f.matches]}
  ELSE remembered' = remembered

StoreCall(f) == StoreFrame(f) /\ Remember(f)

\* One iteration of the loop of match; when exec returns null, match returns.
MatchExec ==
  /\ mpc = "loop"
  /\ StoreCall(MatchIter(patterns, code, Frame))
  /\ events' = EventsAfter(Exec(Re(patterns), code, lastIndex))
  /\ UNCHANGED <<polyfillData, graph, pool, patterns, code, suspended,
                 artifactVars, auditVars, estimate>>

NextMatch == MatchCall \/ MatchExec

\* Control passes from the running call of match to another call on the same
\* matcher.  The locals of match (code, seen, matches, line,
\* lineBeginsAtIndex) belong to a call; this.re and its lastIndex belong to
\* the matcher, of which audit_ constructs one.  The history of events is
\* kept for a call that runs alone only.
Yield ==
  /\ suspended' = [mpc |-> mpc, code |-> code, seen |-> seen,
                   matches |-> matches, line |-> line,
                   lineBeginsAtIndex |-> lineBeginsAtIndex]
  /\ mpc' = suspended.mpc
  /\ code' = suspended.code
  /\ seen' = suspended.seen
  /\ matches' = suspended.matches
  /\ line' = suspended.line
  /\ lineBeginsAtIndex' = suspended.lineBeginsAtIndex
  /\ events' = <<>>
  /\ UNCHANGED <<polyfillData, graph, pool, patterns, lastIndex, remembered,
                 artifactVars, auditVars, estimate>>

NextInterleaved == MatchCall \/ MatchExec \/ Yield

SpecMatch == InitMatch /\ [][NextMatch]_vars

SpecReuse == InitReuse /\ [][NextMatch]_vars

----------------------------------------------------------------------------
(* detectAcrossScripts. *)

\* source.endsWith(`/${module}.js`): the last segment is <module>.js and a
\* '/' precedes it.
EndsWithModuleJs(source, module) ==
  Len(source) >= 2 /\ source[Len(source)] = module \o <<"js">>

\* source.includes(`node_modules/${module}/`): a segment node_modules is
\* followed by the segment <module> and a further '/'.
IncludesNodeModules(source, module) ==
  \E i \in 1..(Len(source) - 2) :
    source[i] = <<"node_modules">> /\ source[i + 1] = module

\* The test of rawMap.sources.find for the modules of one catalog entry.
SourceMatches(source, modules) ==
  \E module \in Range(modules) :
    EndsWithModuleJs(source, module) \/ IncludesNodeModules(source, module)

FindSource(sources, modules) ==
  FindIndex([i \in 1..Len(sources) |-> SourceMatches(sources[i], modules)])

\* The lookup that takes the last mapping of the source.
FindLastMapping(mappings, source) ==
  IF \E i \in 1..Len(mappings) : mappings[i].sourceURL = source
  THEN (CHOOSE i \in 1..Len(mappings) :
          /\ mappings[i].sourceURL = source
          /\ \A j \in (i + 1)..Len(mappings) : mappings[j].sourceURL # source) - 1
  ELSE -1

\* bundle.map.mappings().find(m => m.sourceURL === source)
FindMapping(mappings, source) ==
  FindIndex([i \in 1..Len(mappings) |-> mappings[i].sourceURL = source])

\* The Match pushed for a correlated entry: at the mapping found (index mi),
\* at line 0 and column 0 when none was found.
CorrelatedMatch(name, mappings, mi) ==
  IF mi # -1
  THEN [name |-> name, line |-> mappings[mi + 1].lineNumber,
        column |-> mappings[mi + 1].columnNumber]
  ELSE [name |-> name, line |-> 0, column |-> 0]

\* Correlation that also adds names the list already holds.
AlreadyNever(found, name) == FALSE

\* matches.some(m => m.name === name)
AlreadyMatched(found, name) == \E m \in Range(found) : m.name = name

\* The loop over the catalog for a script with a bundle, from the k-th entry
\* on; found is the script's match list so far.
RECURSIVE Correlate(_, _, _, _)
\* Correlation that puts the Match at the front of the list (unshift).
CorrelateSourceUnshift(data, k, bundle, found, si) ==
  IF si = -1 THEN Correlate(data, k + 1, bundle, found)
  ELSE Correlate(data, k + 1, bundle,
         <<CorrelatedMatch(data[k].name, bundle.map.mappings,
             FindMapping(bundle.map.mappings, bundle.rawMap.sources[si + 1]))>>
         \o found)

CorrelateSource(data, k, bundle, found, si) ==
  IF si = -1 THEN Correlate(data, k + 1, bundle, found)
  ELSE Correlate(data, k + 1, bundle,
         Append(found,
           CorrelatedMatch(data[k].name, bundle.map.mappings,
             FindMapping(bundle.map.mappings, bundle.rawMap.sources[si + 1]))))

Correlate(data, k, bundle, found) ==
  IF k > Len(data) THEN found
  ELSE IF AlreadyMatched(found, data[k].name)
  THEN Correlate(data, k + 1, bundle, found)
  ELSE CorrelateSource(data, k, bundle, found,
                       FindSource(bundle.rawMap.sources, data[k].modules))

\* bundles.find(b => b.script.scriptId === script.scriptId)
FindBundle(bndls, script) ==
  FindIndex([i \in 1..Len(bndls) |-> bndls[i].script.scriptId = script.scriptId])

WithBundle(data, bndls, bi, found) ==
  IF bi = -1 THEN found ELSE Correlate(data, 1, bndls[bi + 1], found)

\* One iteration of the loop over the scripts, for a script with content:
\* the script's final match list.
ScriptMatches(pats, data, bndls, script) ==
  WithBundle(data, bndls, FindBundle(bndls, script), Match(pats, script.content))

\* The iteration that does not skip a script without content.
ContentNeverMissing(content) == FALSE

\* !script.content: the content is missing or the empty string.
ContentMissing(content) == content = <<>>

\* scriptToMatchResults.set(script, matches) unless matches is empty.
SetUnlessEmpty(result, script, found) ==
  IF found = <<>> THEN result
  ELSE Append(result, [script |-> script, matches |-> found])

\* detectAcrossScripts from the k-th script on; result is the map
\* scriptToMatchResults as the sequence of its entries in insertion order.
RECURSIVE detectAcrossScripts(_, _, _, _, _, _)
detectAcrossScripts(pats, data, scripts, bndls, k, result) ==
  IF k > Len(scripts) THEN result
  ELSE IF ContentMissing(scripts[k].content)
  THEN detectAcrossScripts(pats, data, scripts, bndls, k + 1, result)
  ELSE detectAcrossScripts(pats, data, scripts, bndls, k + 1,
         SetUnlessEmpty(result, scripts[k],
                        ScriptMatches(pats, data, bndls, scripts[k])))

----------------------------------------------------------------------------
(* estimateWastedBytes. *)

\* Text pieces of the transform helpers that the estimates count.
CLASS_CALL_CHECK == <<"_classCallCheck">>
LPAREN == <<"(">>
RPAREN == <<")">>
DOT == <<".">>
LETTER_A == <<"a">>
WRAP == <<"wrap">>
APPLY_VOID == <<".apply(void 0,">>
TO_CONSUMABLE_ARRAY == <<"_toConsumableArray">>

OptTok(tok) == [q |-> "opt", cls |-> [k |-> "lit", tok |-> tok]]

\* /regeneratorRuntime\(?\)?\.a?wrap/g
RegeneratorWrap ==
  << <<One(REGENERATOR), OptTok(LPAREN), OptTok(RPAREN), One(DOT),
       OptTok(LETTER_A), One(WRAP)>> >>

\* /\.apply\(void 0,\s?_toConsumableArray/g
ApplyToConsumableArray ==
  << <<One(APPLY_VOID), Opt("ws"), One(TO_CONSUMABLE_ARRAY)>> >>

\* count(content, pattern) for a regular expression with the g flag:
\* the number of successive matches from index from on, added to n.
RECURSIVE CountMatches(_, _, _, _)
CountNext(expr, str, result, n) ==
  IF result.isNull THEN n ELSE CountMatches(expr, str, result.lastIndex, n + 1)

CountMatches(expr, str, from, n) ==
  CountNext(expr, str, Exec(<<expr>>, str, from), n)

\* A count that finds no occurrence.
CountNone(str, tok) == 0

\* count(content, pattern) for a string: content.split(pattern).length - 1.
CountString(str, tok) == Cardinality({i \in 1..Len(str) : str[i] = tok})

ClassesBase == 1000
ClassCallCheckLength == 17       \* '_classCallCheck()'.length
RegeneratorWrapLength == 80      \* a regeneratorRuntime.wrap expression
SpreadBase == 1169
SpreadCallLength == 20           \* '_toConsumableArray()'.length

\* pattern.estimateBytes(content) of the transform pattern with this tag.
EstimateBytes(tag, content) ==
  CASE tag = "classes" ->
         ClassesBase + (CountString(content, CLASS_CALL_CHECK) - 1) * ClassCallCheckLength
    [] tag = "regenerator" ->
         CountMatches(RegeneratorWrap, content, 0, 0) * RegeneratorWrapLength
    [] tag = "spread" ->
         SpreadBase + CountMatches(ApplyToConsumableArray, content, 0, 0) * SpreadCallLength

\* A list that holds a module once per polyfill that depends on it.
AddAgain(modulesSeen, module) == Append(modulesSeen, module)

\* modulesSeen.add(module); the Set is the sequence of its elements in
\* insertion order.
SetAdd(modulesSeen, module) ==
  IF module \in Range(modulesSeen) THEN modulesSeen ELSE Append(modulesSeen, module)

RECURSIVE AddModules(_, _, _)
AddModules(modulesSeen, modules, j) ==
  IF j > Len(modules) THEN modulesSeen
  ELSE AddModules(SetAdd(modulesSeen, modules[j]), modules, j + 1)

\* The loop over polyfillResults when a result without dependencies entry
\* counts as every module of the graph.
RECURSIVE ModulesSeenNoSkip(_, _, _, _)
ModulesSeenNoSkip(g, results, k, modulesSeen) ==
  IF k > Len(results) THEN modulesSeen
  ELSE ModulesSeenNoSkip(g, results, k + 1,
         AddModules(modulesSeen,
                    IF results[k].name \in DOMAIN g.dependencies
                    THEN g.dependencies[results[k].name]
                    ELSE [i \in 1..Len(g.moduleSizes) |-> i - 1],
                    1))

\* The loop over polyfillResults with a Set made anew for every result: the
\* modules of the last result with a dependencies entry.
RECURSIVE ModulesSeenLast(_, _, _, _)
ModulesSeenLast(g, results, k, modulesSeen) ==
  IF k > Len(results) THEN modulesSeen
  ELSE IF results[k].name \notin DOMAIN g.dependencies
  THEN ModulesSeenLast(g, results, k + 1, modulesSeen)
  ELSE ModulesSeenLast(g, results, k + 1,
         AddModules(<<>>, g.dependencies[results[k].name], 1))

\* The loop over polyfillResults: graph.dependencies[result.name] may be
\* missing, and the result is then passed over.
RECURSIVE ModulesSeen(_, _, _, _)
ModulesSeen(g, results, k, modulesSeen) ==
  IF k > Len(results) THEN modulesSeen
  ELSE IF results[k].name \notin DOMAIN g.dependencies
  THEN ModulesSeen(g, results, k + 1, modulesSeen)
  ELSE ModulesSeen(g, results, k + 1,
         AddModules(modulesSeen, g.dependencies[results[k].name], 1))

\* [...modulesSeen].reduce((acc, i) => acc + graph.moduleSizes[i], 0); the
\* module indices are 0-based.
RECURSIVE SumModuleSizes(_, _, _)
SumModuleSizes(g, modulesSeen, j) ==
  IF j > Len(modulesSeen) THEN 0
  ELSE g.moduleSizes[modulesSeen[j] + 1] + SumModuleSizes(g, modulesSeen, j + 1)

\* The polyfill estimate without the clamp.
Unclamped(bytes, maxSize) == bytes

\* Math.min(estimatedWastedBytesFromPolyfills, graph.maxSize)
Clamp(bytes, maxSize) == Min(bytes, maxSize)

\* A partition that takes every Match for a polyfill.
NeverTransform(m) == FALSE

IsTransform(m) == m.name # <<>> /\ m.name[1] = "@"    \* name.startsWith('@')

PolyfillBytes(g, found) ==
  Clamp(SumModuleSizes(g,
          ModulesSeen(g, SelectSeq(found, LAMBDA m : ~IsTransform(m)), 1, <<>>), 1),
        g.maxSize)

\* getTransformPatterns().find(p => p.name === result.name), then the
\* estimate of the pattern found; nothing is added when there is no such
\* pattern or the script has no content.
TransformBytesOf(content, pi) ==
  IF pi = -1 \/ ContentMissing(content) THEN 0
  ELSE EstimateBytes(getTransformPatterns[pi + 1].estimateBytes, content)

RECURSIVE TransformBytes(_, _, _)
TransformBytes(content, results, k) ==
  IF k > Len(results) THEN 0
  ELSE TransformBytesOf(content,
         FindIndex([i \in 1..Len(getTransformPatterns) |->
                      getTransformPatterns[i].name = results[k].name]))
       + TransformBytes(content, results, k + 1)

estimateWastedBytes(g, script, found) ==
  PolyfillBytes(g, found)
  + TransformBytes(script.content, SelectSeq(found, IsTransform), 1)

----------------------------------------------------------------------------
(* audit_. *)

\* Math.round(bytes * ratio) for bytes >= 0 and the ratio num / den.
Round(bytes, ratio) == (2 * bytes * ratio.num + ratio.den) \div (2 * ratio.den)

\* The sub-items of an item, one per Match in the order of the list; the
\* location is given by the arguments handed to makeSourceLocation.
SubItems(script, found) ==
  [k \in 1..Len(found) |->
     [signal |-> found[k].name,
      location |-> [url |-> script.url, line |-> found[k].line,
                    column |-> found[k].column]]]

\* An item made from the matches of the scan alone.
MakeItemOfScan(g, ratios, script, found) ==
  [url |-> script.url,
   wastedBytes |-> Round(estimateWastedBytes(g, script,
                           Match(patterns, script.content)),
                         ratios[script.url]),
   subItems |-> [type |-> "subitems",
                 items |-> SubItems(script, Match(patterns, script.content))],
   totalBytes |-> 0]

\* One iteration of the loop over scriptToMatchResults.entries().
MakeItem(g, ratios, script, found) ==
  [url |-> script.url,
   wastedBytes |-> Round(estimateWastedBytes(g, script, found), ratios[script.url]),
   subItems |-> [type |-> "subitems", items |-> SubItems(script, found)],
   totalBytes |-> 0]

MakeItems(g, ratios, result) ==
  [k \in 1..Len(result) |-> MakeItem(g, ratios, result[k].script, result[k].matches)]

\* s.match(/node_modules\/core-js\/modules\/es[67]/)
IsCoreJs2Source(source) ==
  \E i \in 1..(Len(source) - 3) :
    /\ source[i] = <<"node_modules">>
    /\ source[i + 1] = <<"core-js">>
    /\ source[i + 2] = <<"modules">>
    /\ source[i + 3] # <<>>
    /\ source[i + 3][1] \in {"es6", "es7"}

\* The loop over the bundles without the break: one warning for every
\* first-party bundle with a core-js 2 source.
MakeWarningsNoBreak(entities, bndls) ==
  LET Hit(b) == /\ b.script.url \in entities.firstParty
                /\ \E source \in Range(b.rawMap.sources) : IsCoreJs2Source(source)
  IN  [k \in 1..Len(SelectSeq(bndls, Hit)) |-> "detectedCoreJs2Warning"]

\* The loop over the bundles: one warning for the first first-party bundle
\* with a core-js 2 source, then break.
MakeWarnings(entities, bndls) ==
  IF \E b \in Range(bndls) :
       /\ b.script.url \in entities.firstParty
       /\ \E source \in Range(b.rawMap.sources) : IsCoreJs2Source(source)
  THEN <<"detectedCoreJs2Warning">>
  ELSE <<>>

\* The loop over the items without the test of the party.
AnyParty(entities, url) == TRUE

\* classifiedEntities.isFirstParty(url)
isFirstParty(entities, url) == url \in entities.firstParty

\* The loop over the items when the bytes of an item are added to the bytes
\* that the Map holds for its URL.
RECURSIVE MakeWastedBytesByUrlSum(_, _, _, _)
MakeWastedBytesByUrlSum(entities, its, k, byUrl) ==
  IF k > Len(its) THEN byUrl
  ELSE IF isFirstParty(entities, its[k].url)
  THEN MakeWastedBytesByUrlSum(entities, its, k + 1,
         (its[k].url :>
            its[k].wastedBytes
            + (IF its[k].url \in DOMAIN byUrl THEN byUrl[its[k].url] ELSE 0))
         @@ byUrl)
  ELSE MakeWastedBytesByUrlSum(entities, its, k + 1, byUrl)

\* The loop over the items from the k-th on; byUrl is the Map so far.
RECURSIVE MakeWastedBytesByUrl(_, _, _, _)
MakeWastedBytesByUrl(entities, its, k, byUrl) ==
  IF k > Len(its) THEN byUrl
  ELSE IF isFirstParty(entities, its[k].url)
  THEN MakeWastedBytesByUrl(entities, its, k + 1,
         (its[k].url :> its[k].wastedBytes) @@ byUrl)
  ELSE MakeWastedBytesByUrl(entities, its, k + 1, byUrl)

\* A content that is no string and that no conversion to a string accepts (a
\* Symbol): it is truthy, and this.re.exec(code) throws a TypeError on it.
NotAString == << <<"Symbol()">> >>

ExecThrows(content) == content = NotAString

\* match is reached with every content that is not missing, and neither
\* match nor detectAcrossScripts catches what exec throws.
DetectThrows(scripts) ==
  \E k \in 1..Len(scripts) :
    ~ContentMissing(scripts[k].content) /\ ExecThrows(scripts[k].content)

\* audit_ up to the return of detectAcrossScripts, or up to the exception
\* that leaves audit_ (no catch in audit_ either).
Detect ==
  /\ pc = "detect"
  /\ IF DetectThrows(Scripts)
     THEN /\ scriptToMatchResults' = scriptToMatchResults
          /\ pc' = "threw"
     ELSE /\ scriptToMatchResults' =
               detectAcrossScripts(patterns, polyfillData, Scripts, bundles,
                                   1, <<>>)
          /\ pc' = "report"
  /\ UNCHANGED <<polyfillData, graph, patterns, matcherVars, artifactVars,
                 items, warnings, wastedBytesByUrl, stage, estimate>>

\* audit_ from the loop over the detection result to its return.
Report ==
  /\ pc = "report"
  /\ items' = MakeItems(graph, compressionRatio, scriptToMatchResults)
  /\ warnings' = MakeWarnings(classifiedEntities, bundles)
  /\ wastedBytesByUrl' =
       MakeWastedBytesByUrl(classifiedEntities, items', 1, <<>>)
  /\ pc' = "done"
  /\ UNCHANGED <<polyfillData, graph, patterns, matcherVars, artifactVars,
                 scriptToMatchResults, stage, estimate>>

NextAudit == Detect \/ Report

Logged(name, script) ==
  [stage EXCEPT !.log = Append(@, [stage |-> name, script |-> script.scriptId])]

\* detectAcrossScripts, one iteration up to the return of matcher.match: a
\* script without content is passed over.
StageMatch ==
  /\ pc = "detect"
  /\ stage.k <= Len(Scripts)
  /\ IF ContentMissing(Scripts[stage.k].content)
     THEN /\ stage' = [stage EXCEPT !.k = @ + 1]
          /\ pc' = pc
     ELSE /\ stage' = [Logged("match", Scripts[stage.k]) EXCEPT
                         !.found = Match(patterns, Scripts[stage.k].content)]
          /\ pc' = "correlate"
  /\ UNCHANGED <<polyfillData, graph, patterns, matcherVars, artifactVars,
                 scriptToMatchResults, items, warnings, wastedBytesByUrl,
                 estimate>>

\* detectAcrossScripts, the rest of the iteration: the loop over the catalog
\* for a script with a bundle, and the entry of the script in the map.
StageCorrelate ==
  /\ pc = "correlate"
  /\ scriptToMatchResults' =
       SetUnlessEmpty(scriptToMatchResults, Scripts[stage.k],
         WithBundle(polyfillData, bundles,
                    FindBundle(bundles, Scripts[stage.k]), stage.found))
  /\ stage' = [Logged("correlate", Scripts[stage.k]) EXCEPT
                 !.k = @ + 1, !.found = <<>>]
  /\ pc' = "detect"
  /\ UNCHANGED <<polyfillData, graph, patterns, matcherVars, artifactVars,
                 items, warnings, wastedBytesByUrl, estimate>>

\* detectAcrossScripts returns the map.
StageReturn ==
  /\ pc = "detect"
  /\ stage.k > Len(Scripts)
  /\ stage' = [stage EXCEPT !.k = 1]
  /\ pc' = "report"
  /\ UNCHANGED <<polyfillData, graph, patterns, matcherVars, artifactVars,
                 scriptToMatchResults, items, warnings, wastedBytesByUrl,
                 estimate>>

\* audit_, one iteration of the loop over the entries of the map:
\* estimateWastedBytes (the partition, then the two estimates) and the item
\* of the script.
StageEstimate ==
  /\ pc = "report"
  /\ stage.k <= Len(scriptToMatchResults)
  /\ items' = Append(items,
                 MakeItem(graph, compressionRatio,
                          scriptToMatchResults[stage.k].script,
                          scriptToMatchResults[stage.k].matches))
  /\ stage' = [Logged("estimate", scriptToMatchResults[stage.k].script) EXCEPT
                 !.k = @ + 1]
  /\ pc' = pc
  /\ UNCHANGED <<polyfillData, graph, patterns, matcherVars, artifactVars,
                 scriptToMatchResults, warnings, wastedBytesByUrl, estimate>>

\* audit_ after the loop over the entries: the warnings and wastedBytesByUrl.
StageFinish ==
  /\ pc = "report"
  /\ stage.k > Len(scriptToMatchResults)
  /\ warnings' = MakeWarnings(classifiedEntities, bundles)
  /\ wastedBytesByUrl' = MakeWastedBytesByUrl(classifiedEntities, items, 1, <<>>)
  /\ pc' = "done"
  /\ UNCHANGED <<polyfillData, graph, patterns, matcherVars, artifactVars,
                 scriptToMatchResults, items, stage, estimate>>

NextStages ==
  StageMatch \/ StageCorrelate \/ StageReturn \/ StageEstimate \/ StageFinish

----------------------------------------------------------------------------
(* Inputs of the audit. *)

STRING_REPEAT == <<"es", "string", "repeat">>
ARRAY_FIND_LAST == <<"es", "array", "find-last">>
NEXT_ARRAY_FIND_LAST == <<"esnext", "array", "find-last">>

\* Catalogs: all entries; the entries with distinct names; the core-js
\* entries.
Catalogs ==
  {CatalogEntries, SubSeq(CatalogEntries, 1, 3), SubSeq(CatalogEntries, 2, 4)}

\* A dependency graph of three modules; module 1 is shared by both polyfills.
\* focus-visible has no dependencies entry.
Dependencies ==
  (<<"String", "prototype", "repeat">> :> <<0, 1>>)
  @@ (<<"Array", "prototype", "findLast">> :> <<1, 2>>)

Graphs ==
  {[moduleSizes |-> <<3, 5, 7>>, dependencies |-> Dependencies, maxSize |-> m] :
     m \in {10, 20}}

FirstPartyUrl == "https://www.example.com/a.js"
ThirdPartyUrl == "https://www.googletagmanager.com/a.js"
Urls == {FirstPartyUrl, ThirdPartyUrl}

Ratios == {[num |-> 1, den |-> 1], [num |-> 1, den |-> 2]}

\* Source paths: node_modules/blah/blah/es.string.repeat.js,
\* node_modules/esnext.array.find-last/index.js,
\* node_modules/focus-visible/dist/focus-visible.js, src/app.js,
\* node_modules/core-js/modules/es6.string.repeat.js.
RepeatSource ==
  << <<"node_modules">>, <<"blah">>, <<"blah">>, STRING_REPEAT \o <<"js">> >>
FindLastSource == << <<"node_modules">>, NEXT_ARRAY_FIND_LAST, <<"index", "js">> >>
FocusVisibleSource ==
  << <<"node_modules">>, <<"focus-visible">>, <<"dist">>, <<"focus-visible", "js">> >>
AppSource == << <<"src">>, <<"app", "js">> >>
CoreJs2Source ==
  << <<"node_modules">>, <<"core-js">>, <<"modules">>,
     <<"es6", "string", "repeat", "js">> >>

Mapping(source, l, c) == [sourceURL |-> source, lineNumber |-> l, columnNumber |-> c]

\* Longest content of the script of the detection runs.
MaxScriptLen == 2

\* Most sources in the source map of the detection runs.
MaxSources == 2

\* Contents of the detection runs: line feed and the module paths of the
\* three core-js entries.
DetectChars ==
  {LF, ModulePath(STRING_REPEAT), ModulePath(ARRAY_FIND_LAST),
   ModulePath(NEXT_ARRAY_FIND_LAST)}

DetectSources == {RepeatSource, FindLastSource, FocusVisibleSource}

\* Mapping lists of the detection runs: none, one or two mappings of a
\* source, also behind a mapping of another source.
DetectMappings ==
  {<<>>,
   <<Mapping(RepeatSource, 2, 3)>>,
   <<Mapping(RepeatSource, 2, 3), Mapping(RepeatSource, 4, 1)>>,
   <<Mapping(FindLastSource, 5, 6), Mapping(RepeatSource, 4, 1)>>,
   <<Mapping(AppSource, 1, 1), Mapping(FocusVisibleSource, 7, 0)>>}

Script(id, url, content) == [scriptId |-> id, url |-> url, content |-> content]

Bundle(script, sources, mappings) ==
  [script |-> script, rawMap |-> [sources |-> sources],
   map |-> [mappings |-> mappings]]

\* The state at the start of audit_, the matcher constructed.
InitRun ==
  /\ InitMatcher
  /\ InitFrame
  /\ pool = {}
  /\ pc = "detect"
  /\ scriptToMatchResults = <<>>
  /\ items = <<>>
  /\ warnings = <<>>
  /\ wastedBytesByUrl = <<>>
  /\ stage = NoStage
  /\ estimate = NoEstimate

\* One script, with or without a bundle, and any catalog.
InitDetect ==
  /\ polyfillData \in Catalogs
  /\ graph \in {g \in Graphs : g.maxSize = 20}
  /\ \E c \in SeqsUpTo(DetectChars, MaxScriptLen) :
       Scripts = <<Script("1", FirstPartyUrl, c)>>
  /\ \/ bundles = <<>>
     \/ \E sources \in SeqsUpTo(DetectSources, MaxSources),
           mappings \in DetectMappings :
          bundles = <<Bundle(Scripts[1], sources, mappings)>>
  /\ classifiedEntities = [firstParty |-> {FirstPartyUrl}]
  /\ compressionRatio = [u \in Urls |-> [num |-> 1, den |-> 1]]
  /\ InitRun

SpecDetect == InitDetect /\ [][NextAudit]_vars

\* Most scripts of an audit run.
MaxScripts == 2

ScriptIds == <<"1", "2", "3", "4">>

\* Contents of the audit runs: none, no signature, a polyfill, a transform
\* with one of its helper calls.
AuditContents ==
  {<<>>, <<X>>, <<ModulePath(STRING_REPEAT)>>, <<CANNOT_CALL, CLASS_CALL_CHECK>>}

\* Source lists of the bundles of the audit runs.
AuditSources == {<<RepeatSource>>, <<CoreJs2Source>>}

ScriptLists(n) ==
  {[k \in 1..Len(us) |-> Script(ScriptIds[k], us[k][1], us[k][2])] :
     us \in {s \in SeqsUpTo(Urls \X AuditContents, n) : s # <<>>}}

\* Up to MaxScripts scripts of either party, at most one of them a bundle.
InitAudit ==
  /\ polyfillData = CatalogEntries
  /\ graph \in {g \in Graphs : g.maxSize = 20}
  /\ Scripts \in ScriptLists(MaxScripts)
  /\ \/ bundles = <<>>
     \/ \E k \in 1..Len(Scripts), sources \in AuditSources :
          bundles = <<Bundle(Scripts[k], sources, <<>>)>>
  /\ classifiedEntities = [firstParty |-> {FirstPartyUrl}]
  /\ compressionRatio \in [Urls -> Ratios]
  /\ InitRun

SpecAudit == InitAudit /\ [][NextAudit]_vars

----------------------------------------------------------------------------
(* estimateWastedBytes called on its own, with any match list. *)

\* Longest match list handed to estimateWastedBytes.
MaxMatches == 3

UnknownTransform == <<"@", "babel/plugin-transform-unknown">>

EstimateNames ==
  {<<"String", "prototype", "repeat">>, <<"Array", "prototype", "findLast">>,
   <<"focus-visible">>, TransformClasses, TransformRegenerator, TransformSpread,
   UnknownTransform}

EstimateContents ==
  {<<>>, <<X>>, <<CANNOT_CALL>>,
   <<CANNOT_CALL, CLASS_CALL_CHECK, CLASS_CALL_CHECK>>,
   <<INVALID_SPREAD, APPLY_VOID, TO_CONSUMABLE_ARRAY>>,
   <<REGENERATOR, DOT, LETTER_A, WRAP, REGENERATOR, LPAREN, RPAREN, DOT, WRAP>>,
   <<APPLY_VOID, SP, TO_CONSUMABLE_ARRAY>>}

MatchLists(n) ==
  {[k \in 1..Len(names) |-> [name |-> names[k], line |-> 0, column |-> 0]] :
     names \in SeqsUpTo(EstimateNames, n)}

\* The arguments of the call are drawn at the start.
InitEstimate ==
  /\ polyfillData = CatalogEntries
  /\ graph \in Graphs
  /\ InitMatcher
  /\ InitFrame
  /\ pool = {}
  /\ NoAudit
  /\ \E c \in EstimateContents, found \in MatchLists(MaxMatches) :
       estimate = [called |-> FALSE, script |-> Script("1", FirstPartyUrl, c),
                   matches |-> found]

\* The call of estimateWastedBytes; polyfills is the value of
\* estimatedWastedBytesFromPolyfills after the clamp.
EstimateCall ==
  /\ ~estimate.called
  /\ estimate' =
       [called |-> TRUE, script |-> estimate.script, matches |-> estimate.matches,
        polyfills |-> PolyfillBytes(graph, estimate.matches),
        result |-> estimateWastedBytes(graph, estimate.script, estimate.matches)]
  /\ UNCHANGED <<polyfillData, graph, patterns, matcherVars, artifactVars,
                 auditVars>>

SpecEstimate == InitEstimate /\ [][EstimateCall]_vars

----------------------------------------------------------------------------
(* Claims about the matcher. *)

\* Indices of the events that are the first of their pattern.
FirstEvents ==
  {j \in 1..Len(events) :
     \A i \in 1..(j - 1) : events[i].pattern # events[j].pattern}

MatchOfEvent(e) ==
  [name |-> patterns[e.pattern].name, line |-> e.line,
   column |-> e.index - e.lineBeginsAtIndex]

\* C2: match holds exactly one Match per pattern that had a match event, in
\* the order of the patterns' first events, and each Match is the one of its
\* pattern's first event, however many events the pattern has and whatever
\* their textual form; a later event of the pattern changes nothing.
C2_OneMatchPerPattern ==
  /\ Len(matches) = Cardinality(FirstEvents)
  /\ \A k \in 1..Len(matches) :
       \E j \in FirstEvents :
         /\ Cardinality({i \in FirstEvents : i <= j}) = k
         /\ matches[k] = MatchOfEvent(events[j])

\* C2 witness: a call has returned in which one pattern had two events of
\* different textual forms.
C2_Witness ==
  /\ mpc = "returned"
  /\ \E i, j \in 1..Len(events) :
       /\ i < j
       /\ events[i].pattern = events[j].pattern
       /\ code[events[i].index + 1] # code[events[j].index + 1]

\* C3: a call of match that returns gives the same list as an earlier call
\* with the same content gave, whatever calls (of this or other contents,
\* returned or abandoned) the matcher served in between, and the same list
\* as a matcher that was never used gives.
C3_SameResultOnReuse ==
  mpc = "returned" =>
    /\ (remembered.set /\ remembered.code = code => matches = remembered.matches)
    /\ matches = Match(AllPatterns(polyfillData), code)

\* C3 witness: a call returned a match for the content of a remembered call,
\* and its scan found the match at an index other than 0, so that a stale
\* cursor would have skipped it.
C3_Witness ==
  /\ mpc = "returned"
  /\ remembered.set
  /\ remembered.code = code
  /\ \E j \in 1..Len(events) : events[j].index > 0

----------------------------------------------------------------------------
(* Claims about detectAcrossScripts. *)

Names(found) == {found[i].name : i \in 1..Len(found)}

CountNamed(found, name) == Cardinality({i \in 1..Len(found) : found[i].name = name})

Detected == pc \in {"report", "done"}

\* The entries of the detection result for the script object Scripts[k]
\* (script ids are distinct in every run).
EntriesOf(k) ==
  {j \in 1..Len(scriptToMatchResults) : scriptToMatchResults[j].script = Scripts[k]}

FinalMatches(k) ==
  IF EntriesOf(k) = {} THEN <<>>
  ELSE scriptToMatchResults[CHOOSE j \in EntriesOf(k) : TRUE].matches

PatternMatches(k) == Match(patterns, Scripts[k].content)

BundlesOf(k) == {b \in Range(bundles) : b.script.scriptId = Scripts[k].scriptId}

\* Some source of the bundle is a path of some module of catalog entry e.
Identifies(b, e) ==
  \E source \in Range(b.rawMap.sources) :
    \E module \in Range(e.modules) :
      EndsWithModuleJs(source, module) \/ IncludesNodeModules(source, module)

IdentifiesName(b, name) ==
  \E e \in Range(polyfillData) : e.name = name /\ Identifies(b, e)

\* C1: in every entry of the detection result no two Matches have the same
\* name.
C1_UniqueNames ==
  \A e \in Range(scriptToMatchResults) :
    \A i, j \in 1..Len(e.matches) :
      i # j => e.matches[i].name # e.matches[j].name

\* For script k and its bundle b: correlation adds one Match named as the
\* entry exactly when pattern matching gave none of that name and the bundle
\* identifies an entry of that name, and adds none otherwise.
CorrelationAdds(k, b) ==
  LET found == PatternMatches(k)
      final == FinalMatches(k)
  IN \A e \in Range(polyfillData) :
       CountNamed(final, e.name) - CountNamed(found, e.name)
         = IF e.name \notin Names(found) /\ IdentifiesName(b, e.name)
           THEN 1 ELSE 0

\* C4: for every script with non-empty content that has a bundle, and every
\* catalog entry, with or without text pattern: correlation adds a Match of
\* the entry's name if and only if pattern matching found none of that name
\* and a source of the bundle is a path of a module of an entry of that name.
C4_CorrelationAdds ==
  Detected =>
    \A k \in 1..Len(Scripts) : \A b \in BundlesOf(k) :
      Scripts[k].content # <<>> => CorrelationAdds(k, b)

\* C4 as stated, for every script that has a bundle, whatever its content.
C4_AnyContent ==
  Detected =>
    \A k \in 1..Len(Scripts) : \A b \in BundlesOf(k) : CorrelationAdds(k, b)

\* C4 witness: a content without any signature, and the detection result
\* holds a Match of the entry that has no text pattern.
C4_Witness ==
  /\ Detected
  /\ BundlesOf(1) # {}
  /\ Scripts[1].content # <<>>
  /\ PatternMatches(1) = <<>>
  /\ <<"focus-visible">> \in Names(FinalMatches(1))
  /\ <<"String", "prototype", "repeat">> \notin Names(FinalMatches(1))

\* The position of the first TRUE in a sequence of truth values that has one.
FirstTrue(tests) ==
  CHOOSE i \in 1..Len(tests) : tests[i] /\ \A j \in 1..(i - 1) : ~tests[j]

\* The first entry of the name that bundle b identifies.
EntryOf(b, name) ==
  polyfillData[FirstTrue([i \in 1..Len(polyfillData) |->
                            polyfillData[i].name = name /\ Identifies(b, polyfillData[i])])]

\* The source that stands for the name in bundle b: the first source that is
\* a path of a module of that entry.
SourceOf(b, name) ==
  b.rawMap.sources[FirstTrue([i \in 1..Len(b.rawMap.sources) |->
                                Identifies([rawMap |-> [sources |-> <<b.rawMap.sources[i]>>]],
                                           EntryOf(b, name))])]

\* The first mapping of the source in bundle b.
MappingOf(b, source) ==
  b.map.mappings[FirstTrue([i \in 1..Len(b.map.mappings) |->
                              b.map.mappings[i].sourceURL = source])]

LocatedBy(m, b, source) ==
  IF \E mapping \in Range(b.map.mappings) : mapping.sourceURL = source
  THEN /\ m.line = MappingOf(b, source).lineNumber
       /\ m.column = MappingOf(b, source).columnNumber
  ELSE m.line = 0 /\ m.column = 0

\* C5: a Match that correlation added (its name is none of the pattern
\* matches) is at the generated line and column of the first mapping whose
\* sourceURL is the matched source, and at line 0, column 0 when the source
\* map has no mapping of that source.
C5_CorrelatedLocation ==
  Detected =>
    \A k \in 1..Len(Scripts) : \A b \in BundlesOf(k) :
      LET found == Names(PatternMatches(k))
      IN \A m \in Range(FinalMatches(k)) :
           m.name \notin found => LocatedBy(m, b, SourceOf(b, m.name))

\* C5 witness: one Match was added at the first of two mappings of its
\* source, another at line 0, column 0 for want of a mapping.
C5_Witness ==
  /\ Detected
  /\ PatternMatches(1) = <<>>
  /\ \E b \in BundlesOf(1) :
       /\ Cardinality({i \in 1..Len(b.map.mappings) :
                         b.map.mappings[i].sourceURL = RepeatSource}) = 2
       /\ \A mapping \in Range(b.map.mappings) :
            mapping.sourceURL # FocusVisibleSource
  /\ [name |-> <<"String", "prototype", "repeat">>, line |-> 2, column |-> 3]
       \in Range(FinalMatches(1))
  /\ [name |-> <<"focus-visible">>, line |-> 0, column |-> 0]
       \in Range(FinalMatches(1))

\* C6: when pattern matching found a name and the bundle identifies an entry
\* of that name, the detection result holds exactly one Match of that name,
\* and it is the Match of the pattern matching.
C6_PatternLocationWins ==
  Detected =>
    \A k \in 1..Len(Scripts) : \A b \in BundlesOf(k) :
      \A m \in Range(PatternMatches(k)) :
        IdentifiesName(b, m.name) =>
          /\ CountNamed(FinalMatches(k), m.name) = 1
          /\ m \in Range(FinalMatches(k))

----------------------------------------------------------------------------
(* Claims about estimateWastedBytes. *)

\* The sum of value[x] over the x in S.
RECURSIVE SumOver(_, _)
SumOver(S, value) ==
  IF S = {} THEN 0
  ELSE LET x == CHOOSE y \in S : TRUE
       IN value[x] + SumOver(S \ {x}, value)

\* The size of each module of the graph, by its 0-based index.
SizeOfModule == [i \in 0..(Len(graph.moduleSizes) - 1) |-> graph.moduleSizes[i + 1]]

\* The modules that the polyfill Matches of the call depend on.
ModulesOfPolyfills ==
  UNION {Range(graph.dependencies[m.name]) :
           m \in {x \in Range(estimate.matches) :
                    x.name[1] # "@" /\ x.name \in DOMAIN graph.dependencies}}

\* C7: the polyfill part of the estimate is the smaller of graph.maxSize and
\* the sum of the sizes of the modules in the union of the dependencies of
\* the polyfill Matches, each module counted once; it is the whole estimate
\* when the list holds no transform Match.
C7_PolyfillBytes ==
  estimate.called =>
    /\ estimate.polyfills =
         Min(graph.maxSize, SumOver(ModulesOfPolyfills, SizeOfModule))
    /\ (\A m \in Range(estimate.matches) : m.name[1] # "@") =>
         estimate.result = estimate.polyfills

\* C7 witness: two polyfills that share module 1 were estimated, below the
\* clamp: 3 + 5 + 7, the shared 5 once.
C7_Witness ==
  /\ estimate.called
  /\ \E m \in Range(estimate.matches) : m.name = <<"String", "prototype", "repeat">>
  /\ \E m \in Range(estimate.matches) : m.name = <<"Array", "prototype", "findLast">>
  /\ estimate.polyfills = 15
  /\ estimate.polyfills < graph.maxSize

\* The estimate of the transform of Match m for the content: that of the
\* transform pattern of its name, nothing for any other name.
TransformEstimate(m, content) ==
  IF \E p \in Range(getTransformPatterns) : p.name = m.name
  THEN EstimateBytes(
         (CHOOSE p \in Range(getTransformPatterns) : p.name = m.name).estimateBytes,
         content)
  ELSE 0

\* C8: the returned estimate is at least 0 and at most graph.maxSize plus the
\* sum of the estimates of the transform Matches of the list.
C8_EstimateBounds ==
  estimate.called =>
    /\ estimate.result >= 0
    /\ estimate.result <=
         graph.maxSize
         + SumOver({i \in 1..Len(estimate.matches) : estimate.matches[i].name[1] = "@"},
                   [i \in 1..Len(estimate.matches) |->
                      TransformEstimate(estimate.matches[i], estimate.script.content)])

\* C8 witness: the polyfill part was clamped and a transform estimate was
\* added on top of it.
C8_Witness ==
  /\ estimate.called
  /\ estimate.polyfills = graph.maxSize
  /\ SumOver(ModulesOfPolyfills, SizeOfModule) > graph.maxSize
  /\ estimate.result > graph.maxSize
  /\ \E m \in Range(estimate.matches) : m.name = TransformRegenerator

----------------------------------------------------------------------------
(* Claims about audit_. *)

\* Script k has a Match: pattern matching finds one in its content, or its
\* bundle identifies a catalog entry.
HasMatch(k) ==
  \/ PatternMatches(k) # <<>>
  \/ \E b \in BundlesOf(k) : \E e \in Range(polyfillData) : Identifies(b, e)

\* The scripts in the detection result.
Present == {k \in 1..Len(Scripts) : EntriesOf(k) # {}}

\* C9: a script is in the detection result, and has an item, if and only if
\* its content is non-empty and it has a Match; the items are those of the
\* scripts in the result, and wastedBytesByUrl has keys of such scripts only.
C9_PresentIffMatched ==
  /\ Detected =>
       /\ \A k \in 1..Len(Scripts) :
            k \in Present <=> (Scripts[k].content # <<>> /\ HasMatch(k))
       /\ Len(scriptToMatchResults) = Cardinality(Present)
  /\ pc = "done" =>
       /\ Len(items) = Len(scriptToMatchResults)
       /\ \A j \in 1..Len(items) : items[j].url = scriptToMatchResults[j].script.url
       /\ \A url \in DOMAIN wastedBytesByUrl :
            \E k \in Present : Scripts[k].url = url

\* C9 witness: a script without content whose bundle lists a polyfill module
\* was skipped, next to a script without any Match; no item, no entry.
C9_Witness ==
  /\ pc = "done"
  /\ Len(Scripts) = 2
  /\ Scripts[1].content = <<>>
  /\ \E b \in BundlesOf(1) : \E e \in Range(polyfillData) : Identifies(b, e)
  /\ Scripts[2].content # <<>>
  /\ Scripts[2].url = FirstPartyUrl
  /\ items = <<>>
  /\ DOMAIN wastedBytesByUrl = {}

\* C10: every key of wastedBytesByUrl is the URL of an item of a first-party
\* script; the item of a third-party script is in items, with its rounded
\* estimate and one signal per Match, and its URL is no key.
C10_FirstPartyOnly ==
  pc = "done" =>
    /\ \A url \in DOMAIN wastedBytesByUrl :
         /\ url \in classifiedEntities.firstParty
         /\ \E j \in 1..Len(items) : items[j].url = url
    /\ \A j \in 1..Len(scriptToMatchResults) :
         scriptToMatchResults[j].script.url \notin classifiedEntities.firstParty =>
           /\ items[j].url = scriptToMatchResults[j].script.url
           /\ items[j].wastedBytes =
                Round(estimateWastedBytes(graph, scriptToMatchResults[j].script,
                                          scriptToMatchResults[j].matches),
                      compressionRatio[items[j].url])
           /\ [i \in 1..Len(items[j].subItems.items) |->
                 items[j].subItems.items[i].signal]
                = [i \in 1..Len(scriptToMatchResults[j].matches) |->
                     scriptToMatchResults[j].matches[i].name]
           /\ items[j].url \notin DOMAIN wastedBytesByUrl

\* C10 witness: a third-party item with wasted bytes and a signal, next to a
\* first-party item whose URL is the only key.
C10_Witness ==
  /\ pc = "done"
  /\ \E j \in 1..Len(items) :
       /\ items[j].url = ThirdPartyUrl
       /\ items[j].wastedBytes > 0
       /\ items[j].subItems.items # <<>>
  /\ DOMAIN wastedBytesByUrl = {FirstPartyUrl}

----------------------------------------------------------------------------
(* Order of the Matches of one script. *)

\* The names the inputs can report, in ascending order of their text
\* ('@' < 'A' < 'S' < 'f').
NamesAscending ==
  << TransformClasses, TransformRegenerator, TransformSpread,
     <<"Array", "prototype", "findLast">>,
     <<"String", "prototype", "repeat">>,
     <<"focus-visible">> >>

NameRank(name) ==
  CHOOSE i \in 1..Len(NamesAscending) : NamesAscending[i] = name

\* C11: the Matches of every script of the detection result are in ascending
\* order of their names, whatever the order of the signatures in the content,
\* of the catalog and of the sources of the source map.
C11_SortedByName ==
  Detected =>
    \A k \in 1..Len(scriptToMatchResults) :
      LET found == scriptToMatchResults[k].matches
      IN \A i \in 1..Len(found) : \A j \in 1..Len(found) :
           i < j => NameRank(found[i].name) <= NameRank(found[j].name)

----------------------------------------------------------------------------
(* A script whose content is no string, among other scripts. *)

IsolationContents == {NotAString, <<>>, <<ModulePath(STRING_REPEAT)>>}

\* Up to MaxScripts scripts, any of them with a content that is no string,
\* at most one of them a bundle.
InitIsolation ==
  /\ polyfillData = CatalogEntries
  /\ graph \in {g \in Graphs : g.maxSize = 20}
  /\ \E us \in SeqsUpTo(Urls \X IsolationContents, MaxScripts) :
       /\ us # <<>>
       /\ Scripts = [k \in 1..Len(us) |-> Script(ScriptIds[k], us[k][1], us[k][2])]
  /\ \/ bundles = <<>>
     \/ \E k \in 1..Len(Scripts), sources \in AuditSources :
          bundles = <<Bundle(Scripts[k], sources, <<>>)>>
  /\ classifiedEntities = [firstParty |-> {FirstPartyUrl}]
  /\ compressionRatio = [u \in Urls |-> [num |-> 1, den |-> 1]]
  /\ InitRun

SpecIsolation == InitIsolation /\ [][NextAudit]_vars

\* The matches that a detection result holds for a script, none when it
\* holds no entry of the script.
MatchesFor(result, script) ==
  IF \E j \in 1..Len(result) : result[j].script = script
  THEN result[CHOOSE j \in 1..Len(result) : result[j].script = script].matches
  ELSE <<>>

Fails(script) == ~ContentMissing(script.content) /\ ExecThrows(script.content)

\* C12: once the detection is over, every script whose content is a string
\* (or missing) has the matches that detectAcrossScripts gives it when the
\* scripts whose content is no string are left out of the call.
C12_FailureIsIsolated ==
  pc # "detect" =>
    \A k \in 1..Len(Scripts) :
      ~Fails(Scripts[k]) =>
        MatchesFor(scriptToMatchResults, Scripts[k])
          = MatchesFor(detectAcrossScripts(patterns, polyfillData,
                         SelectSeq(Scripts, LAMBDA script : ~Fails(script)),
                         bundles, 1, <<>>),
                       Scripts[k])

----------------------------------------------------------------------------
(* Two calls of match on the one matcher, their steps interleaved. *)

InterleavedChars == {X, ModulePath(STRING_REPEAT)}

InitInterleaved ==
  /\ polyfillData = CatalogEntries
  /\ graph = NoGraph
  /\ \E c, d \in SeqsUpTo(InterleavedChars, MaxReuseLen) : pool = {c, d}
  /\ InitMatcher
  /\ InitFrame
  /\ NoAudit
  /\ estimate = NoEstimate

SpecInterleaved == InitInterleaved /\ [][NextInterleaved]_vars

----------------------------------------------------------------------------
(* A global of the catalog (an entry whose name has no object part). *)

PROMISE == <<"Promise">>

\* A catalog with a global, as create-polyfill-module-data.js writes one for a
\* module name of two parts (es.promise).
GlobalCatalog ==
  << [name |-> PROMISE, modules |-> << <<"es", "promise">> >>, corejs |-> TRUE],
     [name |-> <<"String", "prototype", "repeat">>,
      modules |-> << <<"es", "string", "repeat">> >>, corejs |-> TRUE] >>

GlobalChars ==
  {SP, SEMI, EQ, X, WINDOW, Ident("Promise"),
   Member(<<"String", "prototype">>, "repeat")}

\* One content over the texts of assignments, called any number of times.
InitGlobal ==
  /\ polyfillData = GlobalCatalog
  /\ graph = NoGraph
  /\ \E c \in SeqsUpTo(GlobalChars, MaxLen) : pool = {c}
  /\ InitMatcher
  /\ InitFrame
  /\ NoAudit
  /\ estimate = NoEstimate

SpecGlobal == InitGlobal /\ [][NextMatch]_vars

\* The property name at index i of the content (0-based) is directly
\* preceded by 'window.' or by a whitespace or ';' character.
Preceded(str, i) ==
  /\ i >= 1
  /\ i < Len(str)
  /\ str[i + 1] = Ident("Promise")
  /\ str[i] \in {WINDOW, CR, LF, SP, SEMI}

\* C14: in a content of assignments, every match event of the pattern of the
\* global Promise begins at 'window.' or at a whitespace or ';' character,
\* and a Match named Promise is reported only when the content holds the
\* property name directly preceded by one of these.
C14_GlobalNeedsPrefix ==
  /\ \A e \in Range(events) :
       patterns[e.pattern].name = PROMISE =>
         /\ code[e.index + 1] \in {WINDOW, CR, LF, SP, SEMI}
         /\ \E i \in (e.index + 1)..(Len(code) - 1) : Preceded(code, i)
  /\ PROMISE \in Names(matches) =>
       \E i \in 1..(Len(code) - 1) : Preceded(code, i)

\* C14 witness: the assignment to Promise behind a ';' was reported, at the
\* index of the ';'.
C14_Witness ==
  /\ mpc = "returned"
  /\ code = <<SEMI, Ident("Promise"), EQ, X>>
  /\ matches = <<[name |-> PROMISE, line |-> 0, column |-> 0]>>

----------------------------------------------------------------------------
(* A content and the same content behind a ';' or a blank. *)

NamesOfContent(str) == Names(Match(patterns, str))

\* The names of the catalog entries without object part.
GlobalNames == {e.name : e \in {d \in Range(polyfillData) : Len(d.name) = 1}}

----------------------------------------------------------------------------
(* Matches that the dependency graph does not know. *)

Without(s, k) == SubSeq(s, 1, k - 1) \o SubSeq(s, k + 1, Len(s))

\* The positions of the polyfill Matches of the call whose name has no entry
\* in graph.dependencies.
Unknown ==
  {k \in 1..Len(estimate.matches) :
     /\ estimate.matches[k].name[1] # "@"
     /\ estimate.matches[k].name \notin DOMAIN graph.dependencies}

\* C16: the call returns, and for every polyfill Match of the list whose name
\* has no entry in graph.dependencies the estimate is the estimate of the
\* list without that Match.
C16_UnknownPolyfillSkipped ==
  estimate.called =>
    \A k \in Unknown :
      estimate.result =
        estimateWastedBytes(graph, estimate.script, Without(estimate.matches, k))

\* C16 witness: focus-visible, unknown to the graph, was estimated between
\* String.prototype.repeat and a transform; the estimate is that of the two.
C16_Witness ==
  /\ estimate.called
  /\ Len(estimate.matches) = 3
  /\ estimate.matches[1].name = <<"String", "prototype", "repeat">>
  /\ estimate.matches[2].name = <<"focus-visible">>
  /\ estimate.matches[3].name = TransformClasses
  /\ estimate.polyfills = 8
  /\ estimate.result > 8

----------------------------------------------------------------------------
(* Lines and columns of the scan. *)

LineChars ==
  {CR, LF, EQ, Member(<<"String", "prototype">>, "repeat"), CANNOT_CALL}

\* One content with line terminators of every kind, called any number of
\* times.
InitLines ==
  /\ polyfillData = CatalogEntries
  /\ graph = NoGraph
  /\ \E c \in SeqsUpTo(LineChars, MaxLen) : pool = {c}
  /\ InitMatcher
  /\ InitFrame
  /\ NoAudit
  /\ estimate = NoEstimate

SpecLines == InitLines /\ [][NextMatch]_vars

\* The 0-based indices at which a line terminator of the content begins: a
\* CR (alone or before an LF), or an LF that no CR precedes.
TerminatorStarts(str) ==
  {i \in 0..(Len(str) - 1) :
     \/ str[i + 1] = CR
     \/ str[i + 1] = LF /\ (i = 0 \/ str[i] # CR)}

\* The index just past the line terminator that begins at index i.
PastTerminator(str, i) ==
  IF str[i + 1] = CR /\ i + 1 < Len(str) /\ str[i + 2] = LF THEN i + 2 ELSE i + 1

\* C17: when the scan has returned, the line counter is the number of line
\* terminators of the content, a CRLF pair being one terminator.
C17_OneLinePerTerminator ==
  mpc = "returned" => line = Cardinality(TerminatorStarts(code))

\* The index of the first character after the most recent line terminator
\* that begins before index n, 0 when there is none.
LineStart(str, n) ==
  LET before == {i \in TerminatorStarts(str) : i < n}
  IN IF before = {} THEN 0
     ELSE PastTerminator(str, CHOOSE i \in before : \A j \in before : j <= i)

\* C18: the Match of every first event of a pattern is in the match list with
\* the column of the event's index within its line, the line beginning just
\* past the most recent line terminator before the event.
C18_ColumnWithinLine ==
  \A j \in FirstEvents :
    \E m \in Range(matches) :
      /\ m.name = patterns[events[j].pattern].name
      /\ m.line = events[j].line
      /\ m.column = events[j].index - LineStart(code, events[j].index)

\* C19: the Match of every first event of a pattern is in the match list with
\* the line that is the number of line terminators of the content that begin
\* before the index of the event.
C19_LineOfFirstOccurrence ==
  \A j \in FirstEvents :
    \E m \in Range(matches) :
      /\ m.name = patterns[events[j].pattern].name
      /\ m.line =
           Cardinality({i \in TerminatorStarts(code) : i < events[j].index})

----------------------------------------------------------------------------
(* Capture groups of the combined expression. *)

\* The result of the exec that the running call is about to evaluate.
Pending == Exec(Re(patterns), code, lastIndex)

Defined(result) == {j \in 1..Len(result.captureGroups) : result.captureGroups[j]}

\* The result is a match event of exactly one pattern group, and the position
\* of the group is that of a pattern whose expression matches the text of the
\* event.
OnePatternGroup(result) ==
  /\ Len(result.captureGroups) = 1 + Len(patterns)
  /\ Cardinality(Defined(result)) = 1
  /\ \A j \in Defined(result) :
       /\ j = 2 + FindIndex(Tail(result.captureGroups))
       /\ MatchExpr(patterns[j - 1].expression, code, result.index)
            = result.lastIndex

\* C20: every result of exec that is no line terminator has exactly one
\* defined pattern group, and patternExpressionMatches.findIndex(Boolean) is
\* the position in this.patterns of the pattern whose expression matched; the
\* expression has one group per pattern after the newline group.
C20_OneGroupPerEvent ==
  mpc = "loop" =>
    (~Pending.isNull /\ ~Pending.captureGroups[1] => OnePatternGroup(Pending))

\* C20 witness: behind a line terminator the scan is about to evaluate a match
\* of the transform pattern that follows the polyfill patterns.
C20_Witness ==
  /\ mpc = "loop"
  /\ code = <<LF, CANNOT_CALL>>
  /\ lastIndex = 1
  /\ Defined(Pending) = {2 + Len(getPolyfillPatterns(polyfillData))}
  /\ patterns[1 + Len(getPolyfillPatterns(polyfillData))].name = TransformClasses

----------------------------------------------------------------------------
(* The two classes of Matches in the estimate. *)

\* The match list at other lines and columns.
Relocated(found) ==
  [k \in 1..Len(found) |->
     [name |-> found[k].name, line |-> found[k].line + 7,
      column |-> found[k].column + 9]]

\* The sum of the estimates of the transform Matches of the call for the
\* content of its script; a script without content has none.
TransformSum ==
  IF estimate.script.content = <<>> THEN 0
  ELSE SumOver({i \in 1..Len(estimate.matches) : estimate.matches[i].name[1] = "@"},
               [i \in 1..Len(estimate.matches) |->
                  TransformEstimate(estimate.matches[i], estimate.script.content)])

\* C21: the returned estimate is the clamped polyfill estimate, taken over
\* the Matches whose name does not begin with '@', plus the sum over the
\* Matches whose name begins with '@' of the estimate of their transform for
\* the whole content; each Match counts in one of the two parts only, and
\* the lines and columns of the Matches do not matter.
C21_TwoClasses ==
  estimate.called =>
    /\ estimate.result
         = Min(graph.maxSize, SumOver(ModulesOfPolyfills, SizeOfModule))
           + TransformSum
    /\ estimate.result
         = estimateWastedBytes(graph, estimate.script,
             SelectSeq(estimate.matches, LAMBDA m : m.name[1] # "@"))
           + estimateWastedBytes(graph, estimate.script,
               SelectSeq(estimate.matches, LAMBDA m : m.name[1] = "@"))
    /\ estimate.result
         = estimateWastedBytes(graph, estimate.script, Relocated(estimate.matches))

\* C21 witness: a polyfill between two different transforms was estimated for
\* a content with helper calls; both parts are positive.
C21_Witness ==
  /\ estimate.called
  /\ Len(estimate.matches) = 3
  /\ estimate.matches[1].name = TransformSpread
  /\ estimate.matches[2].name = <<"String", "prototype", "repeat">>
  /\ estimate.matches[3].name = TransformClasses
  /\ estimate.script.content = <<APPLY_VOID, SP, TO_CONSUMABLE_ARRAY>>
  /\ estimate.polyfills = 8
  /\ estimate.result = 8 + (SpreadBase + SpreadCallLength)
                         + (ClassesBase - ClassCallCheckLength)

----------------------------------------------------------------------------
(* The estimates of the transforms. *)

\* The transform patterns that have a Match in the list of the call and whose
\* literal the content of the script holds.
MatchedTransforms ==
  {p \in Range(getTransformPatterns) :
     /\ \E m \in Range(estimate.matches) : m.name = p.name
     /\ \E i \in 0..(Len(estimate.script.content) - 1) :
          MatchExpr(p.expression, estimate.script.content, i) # -1}

\* The number of indices of the content at which the expression matches.
Occurrences(expr, str) ==
  Cardinality({i \in 0..(Len(str) - 1) : MatchExpr(expr, str, i) # -1})

BaseCost(tag) ==
  CASE tag = "classes" -> ClassesBase
    [] tag = "regenerator" -> 0
    [] tag = "spread" -> SpreadBase

\* C22: the estimate of every transform that was matched in the content is at
\* least the base cost of the transform.
C22_AtLeastBase ==
  estimate.called =>
    \A p \in MatchedTransforms :
      EstimateBytes(p.estimateBytes, estimate.script.content)
        >= BaseCost(p.estimateBytes)

\* C22 as it holds: the estimate of the classes transform is its base cost
\* plus the cost of a call for every occurrence of _classCallCheck but one
\* (at least the base cost less one call, and at least the base cost when
\* the content holds _classCallCheck); that of the regenerator transform is
\* the cost of a wrap for every wrap, without base cost; that of the spread
\* transform is its base cost plus the cost of a call for every call.
C22_TransformEstimates ==
  estimate.called =>
    \A p \in MatchedTransforms :
      LET content == estimate.script.content
          bytes == EstimateBytes(p.estimateBytes, content)
      IN CASE p.estimateBytes = "classes" ->
                /\ bytes = ClassesBase
                     + (Occurrences(<< <<One(CLASS_CALL_CHECK)>> >>, content) - 1)
                       * ClassCallCheckLength
                /\ bytes >= ClassesBase - ClassCallCheckLength
                /\ CLASS_CALL_CHECK \in Range(content) <=> bytes >= ClassesBase
           [] p.estimateBytes = "regenerator" ->
                bytes = Occurrences(RegeneratorWrap, content) * RegeneratorWrapLength
           [] p.estimateBytes = "spread" ->
                /\ bytes = SpreadBase
                     + Occurrences(ApplyToConsumableArray, content) * SpreadCallLength
                /\ bytes >= SpreadBase

\* C22 witness: the classes transform was estimated for a content that holds
\* its literal and no _classCallCheck, below its base cost.
C22_Witness ==
  /\ estimate.called
  /\ estimate.script.content = <<CANNOT_CALL>>
  /\ estimate.matches = <<[name |-> TransformClasses, line |-> 0, column |-> 0]>>
  /\ estimate.result = ClassesBase - ClassCallCheckLength

----------------------------------------------------------------------------
(* The stages of the audit, script by script. *)

SpecStages == InitAudit /\ [][NextStages]_vars

StageOrder == <<"match", "correlate", "estimate">>

\* The stages that the history holds for the script, in their order.
StagesOf(id) ==
  LET own == SelectSeq(stage.log, LAMBDA e : e.script = id)
  IN [i \in 1..Len(own) |-> own[i].stage]

\* The final match list of script k: the scan, then the correlation.
FinalList(k) == ScriptMatches(patterns, polyfillData, bundles, Scripts[k])

\* C23: the stages of every script run in the order match, correlate,
\* estimate (whose first step is the partition), each at most once; the item
\* of a script is made once its match list is final, and its estimate and
\* its signals are those of the list after correlation.
C23_StagesInOrder ==
  /\ \A k \in 1..Len(Scripts) :
       LET ran == StagesOf(Scripts[k].scriptId)
       IN /\ Len(ran) <= Len(StageOrder)
          /\ ran = SubSeq(StageOrder, 1, Len(ran))
  /\ \A j \in 1..Len(items) :
       \E k \in 1..Len(Scripts) :
         /\ scriptToMatchResults[j].script = Scripts[k]
         /\ LET final == FinalList(k)
            IN /\ scriptToMatchResults[j].matches = final
               /\ items[j].wastedBytes =
                    Round(estimateWastedBytes(graph, Scripts[k], final),
                          compressionRatio[Scripts[k].url])
               /\ [i \in 1..Len(items[j].subItems.items) |->
                     items[j].subItems.items[i].signal]
                    = [i \in 1..Len(final) |-> final[i].name]
  /\ pc = "done" =>
       /\ Len(items) = Len(scriptToMatchResults)
       /\ scriptToMatchResults
            = detectAcrossScripts(patterns, polyfillData, Scripts, bundles, 1, <<>>)

\* C23 witness: the audit is over for two scripts; correlation gave the first
\* its only Match, which is its signal and whose modules are its estimate.
C23_Witness ==
  /\ pc = "done"
  /\ Len(Scripts) = 2
  /\ Len(items) = 2
  /\ PatternMatches(1) = <<>>
  /\ items[1].subItems.items[1].signal = <<"String", "prototype", "repeat">>
  /\ items[1].wastedBytes > 0
  /\ StagesOf(Scripts[1].scriptId) = StageOrder
  /\ StagesOf(Scripts[2].scriptId) = StageOrder

\* ---------------------------------------------------------------------------
\* C24: the core-js 2 warning.

\* node_modules/core-js/modules/es7.array.includes.js and
\* node_modules/core-js/modules/es.string.repeat.js (core-js 3).
CoreJs2Es7Source ==
  << <<"node_modules">>, <<"core-js">>, <<"modules">>,
     <<"es7", "array", "includes", "js">> >>
CoreJs3Source ==
  << <<"node_modules">>, <<"core-js">>, <<"modules">>, STRING_REPEAT \o <<"js">> >>

\* Source lists of the bundles of the warning runs; the empty one is a source
\* map without sources.
WarningSources ==
  {<<>>, <<CoreJs3Source>>, <<CoreJs2Source>>, <<AppSource, CoreJs2Es7Source>>}

\* Every script is a bundle, scripts of either party.
InitWarnings ==
  /\ polyfillData = CatalogEntries
  /\ graph \in {g \in Graphs : g.maxSize = 20}
  /\ Scripts \in ScriptLists(MaxScripts)
  /\ \E sources \in [1..Len(Scripts) -> WarningSources] :
       bundles = [k \in 1..Len(Scripts) |-> Bundle(Scripts[k], sources[k], <<>>)]
  /\ classifiedEntities = [firstParty |-> {FirstPartyUrl}]
  /\ compressionRatio = [url \in Urls |-> [num |-> 1, den |-> 1]]
  /\ InitRun

SpecWarnings == InitWarnings /\ [][NextAudit]_vars

\* The bundles of first-party scripts that list a core-js 2 source.
FirstPartyCoreJs2 ==
  {k \in 1..Len(bundles) :
     /\ bundles[k].script.url \in classifiedEntities.firstParty
     /\ \E i \in 1..Len(bundles[k].rawMap.sources) :
          IsCoreJs2Source(bundles[k].rawMap.sources[i])}

\* C24: audit_ returns the core-js 2 warning at most once, and returns it if
\* and only if some bundle of a first-party script lists a source under
\* node_modules/core-js/modules/es6 or es7; such sources in third-party
\* bundles alone give no warning.
C24_CoreJs2Warning ==
  pc = "done" =>
    /\ Len(warnings) <= 1
    /\ \A i \in 1..Len(warnings) : warnings[i] = "detectedCoreJs2Warning"
    /\ (warnings # <<>>) <=> (FirstPartyCoreJs2 # {})

\* The run of two first-party
\* core-js 2 bundles ends with one warning.
C24_Witness ==
  /\ pc = "done"
  /\ Cardinality(FirstPartyCoreJs2) = 2
  /\ warnings = <<"detectedCoreJs2Warning">>

\* ---------------------------------------------------------------------------
\* C25: match terminates.

\* Contents of the terminating scan: both line terminators, another
\* character, a polyfill form and a transform literal.
ScanChars == {CR, LF, X, Member(<<"String", "prototype">>, "repeat"), CANNOT_CALL}

\* The greatest length of a content of the terminating scan.
MaxScanLen == 2

InitScan ==
  /\ polyfillData = CatalogEntries
  /\ graph = NoGraph
  /\ pool = SeqsUpTo(ScanChars, MaxScanLen)
  /\ InitMatcher
  /\ InitFrame
  /\ NoAudit
  /\ estimate = NoEstimate

\* match is called once, with a content of the pool.
FirstCall == mpc = "idle" /\ MatchCall

\* JavaScript runs a call to completion: once match is entered, the loop
\* takes its next iteration as long as there is one.
SpecScan ==
  InitScan /\ [][FirstCall \/ MatchExec]_vars /\ WF_vars(MatchExec)

\* No group of the combined expression matches the empty string at any index
\* of the content.
NoEmptyMatch ==
  \A g \in 1..Len(Re(patterns)), i \in 0..Len(code) :
    MatchExpr(Re(patterns)[g], code, i) # i

\* An iteration after which the loop goes on moves the cursor forward.
CursorAdvances ==
  [][mpc = "loop" /\ mpc' = "loop" => lastIndex' > lastIndex]_vars

\* C25: match terminates on every finite content: no alternative of the
\* combined expression matches the empty string, every loop iteration that
\* finds a match advances the cursor by at least one character, and the scan
\* returns.
C25_MatchTerminates ==
  /\ []NoEmptyMatch
  /\ CursorAdvances
  /\ (mpc = "loop") ~> (mpc = "returned")

\* C25 witness: a scan returned after the cursor passed a line terminator and
\* a pattern match, on a content of the greatest length.
C25_Witness ==
  /\ mpc = "returned"
  /\ Len(code) = MaxScanLen
  /\ events # <<>>
  /\ line >= 1

\* ---------------------------------------------------------------------------
\* C26: the estimate is monotone and order-insensitive in the match list.

\* The list with the Match m added after its first p entries.
WithMatchAt(found, p, m) ==
  SubSeq(found, 1, p) \o <<m>> \o SubSeq(found, p + 1, Len(found))

\* The orders of n entries.
Orders(n) == {f \in [1..n -> 1..n] : \A i, j \in 1..n : i # j => f[i] # f[j]}

Reordered(found, f) == [k \in 1..Len(found) |-> found[f[k]]]

\* C26: for the script and the list of a call of estimateWastedBytes, the
\* list with one more Match, of any name and at any place, gives an estimate
\* that is not smaller, and the list in any other order gives the same
\* estimate.
C26_MonotoneAndOrderFree ==
  estimate.called =>
    /\ \A p \in 0..Len(estimate.matches), name \in EstimateNames :
         estimateWastedBytes(graph, estimate.script,
           WithMatchAt(estimate.matches, p, [name |-> name, line |-> 0, column |-> 0]))
         >= estimate.result
    /\ \A f \in Orders(Len(estimate.matches)) :
         estimateWastedBytes(graph, estimate.script, Reordered(estimate.matches, f))
         = estimate.result

\* C26 witness: an estimate of two polyfills that share a module and of a
\* transform with a positive estimate, the transform between the polyfills.
C26_Witness ==
  /\ estimate.called
  /\ Len(estimate.matches) = 3
  /\ estimate.matches[1].name = <<"String", "prototype", "repeat">>
  /\ estimate.matches[2].name = TransformClasses
  /\ estimate.matches[3].name = <<"Array", "prototype", "findLast">>
  /\ estimate.polyfills > 0
  /\ estimate.result > estimate.polyfills

\* ---------------------------------------------------------------------------
\* C27: items that share a first-party URL.

\* The indices of the items of a URL.
ItemsOf(url) == {j \in 1..Len(items) : items[j].url = url}

Last(S) == CHOOSE j \in S : \A i \in S : i <= j

\* C27: items keeps one entry per script of the returned map, in its order;
\* for a first-party URL that several items share, wastedBytesByUrl holds
\* the wastedBytes of the last of them in the order of items.
C27_LastItemWins ==
  pc = "done" =>
    /\ Len(items) = Len(scriptToMatchResults)
    /\ \A j \in 1..Len(items) : items[j].url = scriptToMatchResults[j].script.url
    /\ \A url \in classifiedEntities.firstParty :
         ItemsOf(url) # {} =>
           /\ url \in DOMAIN wastedBytesByUrl
           /\ wastedBytesByUrl[url] = items[Last(ItemsOf(url))].wastedBytes

\* C27 witness: two items of one first-party URL with different positive
\* bytes; the Map holds the bytes of the second, which is not their sum.
C27_Witness ==
  /\ pc = "done"
  /\ Len(items) = 2
  /\ items[1].url = FirstPartyUrl
  /\ items[2].url = FirstPartyUrl
  /\ items[1].wastedBytes > 0
  /\ items[2].wastedBytes > 0
  /\ items[1].wastedBytes # items[2].wastedBytes
  /\ wastedBytesByUrl[FirstPartyUrl] = items[2].wastedBytes

\* ---------------------------------------------------------------------------
\* C28: bundle correlation only appends.

\* The Matches are named as catalog entries taken in the order of the
\* catalog.
InCatalogOrder(added) ==
  \E at \in [1..Len(added) -> 1..Len(polyfillData)] :
    /\ \A i, j \in 1..Len(added) : i < j => at[i] < at[j]
    /\ \A i \in 1..Len(added) : polyfillData[at[i]].name = added[i].name

PrefixThenCatalog(found, final) ==
  /\ Len(final) >= Len(found)
  /\ SubSeq(final, 1, Len(found)) = found
  /\ InCatalogOrder(SubSeq(final, Len(found) + 1, Len(final)))

FOCUS_VISIBLE == <<"focus-visible">>

\* Contents of the origin runs: another character, the text of the module
\* paths of focus-visible and of String.prototype.repeat, and a transform
\* literal.
OriginChars ==
  {X, ModulePath(FOCUS_VISIBLE), ModulePath(STRING_REPEAT), CANNOT_CALL}

OriginSources == {FocusVisibleSource, RepeatSource}

\* One script, without a bundle or with a bundle without mappings.
InitOrigin ==
  /\ polyfillData = CatalogEntries
  /\ graph \in {g \in Graphs : g.maxSize = 20}
  /\ \E c \in SeqsUpTo(OriginChars, MaxScriptLen) :
       Scripts = <<Script("1", FirstPartyUrl, c)>>
  /\ \/ bundles = <<>>
     \/ \E sources \in SeqsUpTo(OriginSources, MaxSources) :
          bundles = <<Bundle(Scripts[1], sources, <<>>)>>
  /\ classifiedEntities = [firstParty |-> {FirstPartyUrl}]
  /\ compressionRatio = [u \in Urls |-> [num |-> 1, den |-> 1]]
  /\ InitRun

SpecOrigin == InitOrigin /\ [][NextAudit]_vars

\* The names of the patterns given to the matcher: the corejs entries of the
\* catalog and the transforms.
PatternNames ==
  {e.name : e \in {d \in Range(polyfillData) : d.corejs}}
    \cup {TransformClasses, TransformRegenerator, TransformSpread}

\* C29: for a script with content, (1) without a bundle every Match name is
\* the name of a corejs catalog entry or of a transform; (2) the name of a
\* catalog entry without the corejs flag is in the final list only when a
\* bundle of the script identifies the entry, and pattern matching did not
\* report it; (3) a Match with a transform name is one of the Matches of
\* pattern matching.
C29_NameOrigins ==
  Detected =>
    \A k \in 1..Len(Scripts) :
      Scripts[k].content # <<>> =>
        /\ BundlesOf(k) = {} => Names(FinalMatches(k)) \subseteq PatternNames
        /\ \A e \in Range(polyfillData) :
             ~e.corejs /\ e.name \in Names(FinalMatches(k)) =>
               /\ e.name \notin Names(PatternMatches(k))
               /\ \E b \in BundlesOf(k) : Identifies(b, e)
        /\ \A m \in Range(FinalMatches(k)) :
             IsTransform(m) => m \in Range(PatternMatches(k))

\* C29 witness: a script without a bundle whose content holds the module
\* path of focus-visible and a transform literal; the transform is the only
\* name reported.
C29_Witness ==
  /\ Detected
  /\ bundles = <<>>
  /\ ModulePath(FOCUS_VISIBLE) \in Range(Scripts[1].content)
  /\ Names(FinalMatches(1)) = {TransformClasses}

\* ---------------------------------------------------------------------------
\* C30: the matcher after a scan.

\* C30: when match has returned, this.re.lastIndex is 0 and this.patterns is
\* the list the constructor was given: the matcher is in the state it had
\* after its construction.
C30_MatcherRestored ==
  mpc = "returned" =>
    /\ lastIndex = 0
    /\ patterns = AllPatterns(polyfillData)

\* C30 witness: a scan has returned that found a match past the beginning of
\* the content and a line terminator, so that the cursor had left 0.
C30_Witness ==
  /\ mpc = "returned"
  /\ lastIndex = 0
  /\ line > 0
  /\ \E j \in 1..Len(events) : events[j].index > 0

====
